---- MODULE Spec2Model ----
(***************************************************************************)
(* A model of the Serenity mental-health backend: the pattern matcher      *)
(* (get_flags), the decision engine (decide_action), the /analyze handler  *)
(* of backend/app/main.py, the classifier adapter MLService.predict, the   *)
(* /ml/predict route, the conversational composer                          *)
(* ChatbotService.generate_response and the /chat/message route.           *)
(*                                                                         *)
(* Python strings are sequences of one-character strings, so that          *)
(* str.lower(), str.strip() and re.search() are computed character by      *)
(* character.  Probabilities and confidences are integers in hundredths    *)
(* (0.55 is 55).  A Python exception is a record [raised |-> TRUE, ...].   *)
(***************************************************************************)
EXTENDS Integers, Sequences, FiniteSets, TLC

(***************************************************************************)
(* Characters and strings                                                  *)
(***************************************************************************)

UpperLetters == <<"A", "B", "C", "D", "E", "F", "G", "H", "I", "J", "K", "L", "M", "N", "O", "P", "Q", "R", "S", "T", "U", "V", "W", "X", "Y", "Z">>

LowerLetters == <<"a", "b", "c", "d", "e", "f", "g", "h", "i", "j", "k", "l", "m", "n", "o", "p", "q", "r", "s", "t", "u", "v", "w", "x", "y", "z">>

Digits == {"0", "1", "2", "3", "4", "5", "6", "7", "8", "9"}

Range(s) == {s[i] : i \in DOMAIN s}

\* str.lower() on one character (ASCII letters; every other character is kept)
LowerChar(c) ==
    IF \E i \in DOMAIN UpperLetters : UpperLetters[i] = c
    THEN LowerLetters[CHOOSE i \in DOMAIN UpperLetters : UpperLetters[i] = c]
    ELSE c

\* str.lower()
Lower(s) == [i \in DOMAIN s |-> LowerChar(s[i])]

\* the regular expression class \w
IsWordChar(c) == c \in Range(UpperLetters) \cup Range(LowerLetters) \cup Digits \cup {"_"}

\* str.isspace() on one character
IsSpace(c) == c \in {" "}

RECURSIVE LStrip(_)
LStrip(s) == IF s # <<>> /\ IsSpace(Head(s)) THEN LStrip(Tail(s)) ELSE s

RECURSIVE RStrip(_)
RStrip(s) ==
    IF s # <<>> /\ IsSpace(s[Len(s)]) THEN RStrip(SubSeq(s, 1, Len(s) - 1)) ELSE s

\* str.strip()
Strip(s) == RStrip(LStrip(s))

(***************************************************************************)
(* Regular expressions of the form \b(a1|a2|...)\b under re.IGNORECASE:    *)
(* a pattern is the set of its literal alternatives.                       *)
(***************************************************************************)
\* \b at position p of text (between text[p-1] and text[p])
WordBoundary(text, p) ==
    LET before == p > 1 /\ IsWordChar(text[p - 1])
        after  == p <= Len(text) /\ IsWordChar(text[p])
    IN  before # after

\* the literal lit stands at position p of text (both already case-folded)
LiteralAt(lit, text, p) ==
    /\ p + Len(lit) - 1 <= Len(text)
    /\ \A k \in 1..Len(lit) : text[p + k - 1] = lit[k]

\* re.search(r"\b(a1|a2|...)\b", text, flags=re.IGNORECASE) is not None:
\* IGNORECASE compares the case-folded pattern with the case-folded text
re_search(alternatives, text) ==
    LET folded == Lower(text)
    IN  \E lit \in {Lower(a) : a \in alternatives} : \E p \in 1..Len(text) :
            /\ LiteralAt(lit, folded, p)
            /\ WordBoundary(folded, p)
            /\ WordBoundary(folded, p + Len(lit))

\* i (will|am going to|gonna); kill myself|end my life|suicide; i want to die|i don't want to live; can't go on|no reason to live
INTENT_PATTERNS == <<
    {<<"i", " ", "w", "i", "l", "l">>,
     <<"i", " ", "a", "m", " ", "g", "o", "i", "n", "g", " ", "t", "o">>,
     <<"i", " ", "g", "o", "n", "n", "a">>},
    {<<"k", "i", "l", "l", " ", "m", "y", "s", "e", "l", "f">>,
     <<"e", "n", "d", " ", "m", "y", " ", "l", "i", "f", "e">>,
     <<"s", "u", "i", "c", "i", "d", "e">>},
    {<<"i", " ", "w", "a", "n", "t", " ", "t", "o", " ", "d", "i", "e">>,
     <<"i", " ", "d", "o", "n", "'", "t", " ", "w", "a", "n", "t", " ", "t", "o", " ", "l", "i", "v", "e">>},
    {<<"c", "a", "n", "'", "t", " ", "g", "o", " ", "o", "n">>,
     <<"n", "o", " ", "r", "e", "a", "s", "o", "n", " ", "t", "o", " ", "l", "i", "v", "e">>}
>>

\* today|tonight|now|right now|this evening
TIME_PATTERNS == <<
    {<<"t", "o", "d", "a", "y">>,
     <<"t", "o", "n", "i", "g", "h", "t">>,
     <<"n", "o", "w">>,
     <<"r", "i", "g", "h", "t", " ", "n", "o", "w">>,
     <<"t", "h", "i", "s", " ", "e", "v", "e", "n", "i", "n", "g">>}
>>

\* i have a plan|planned it|figured out how
PLAN_PATTERNS == <<
    {<<"i", " ", "h", "a", "v", "e", " ", "a", " ", "p", "l", "a", "n">>,
     <<"p", "l", "a", "n", "n", "e", "d", " ", "i", "t">>,
     <<"f", "i", "g", "u", "r", "e", "d", " ", "o", "u", "t", " ", "h", "o", "w">>}
>>

\* pills|overdose|rope|knife|gun|poison
MEANS_PATTERNS == <<
    {<<"p", "i", "l", "l", "s">>,
     <<"o", "v", "e", "r", "d", "o", "s", "e">>,
     <<"r", "o", "p", "e">>,
     <<"k", "n", "i", "f", "e">>,
     <<"g", "u", "n">>,
     <<"p", "o", "i", "s", "o", "n">>}
>>

\* _match_any(patterns, text)
match_any(patterns, text) == \E i \in DOMAIN patterns : re_search(patterns[i], text)

\* get_flags stopping at the first category that matches
get_flags_first_category(text) ==
    IF match_any(INTENT_PATTERNS, text) THEN <<"intent">>
    ELSE IF match_any(TIME_PATTERNS, text) THEN <<"time">>
    ELSE IF match_any(PLAN_PATTERNS, text) THEN <<"plan">>
    ELSE IF match_any(MEANS_PATTERNS, text) THEN <<"means">>
    ELSE <<>>

\* get_flags(text): the list of matched categories, in the fixed order
get_flags(text) ==
    (IF match_any(INTENT_PATTERNS, text) THEN <<"intent">> ELSE <<>>)
    \o (IF match_any(TIME_PATTERNS, text) THEN <<"time">> ELSE <<>>)
    \o (IF match_any(PLAN_PATTERNS, text) THEN <<"plan">> ELSE <<>>)
    \o (IF match_any(MEANS_PATTERNS, text) THEN <<"means">> ELSE <<>>)

(***************************************************************************)
(* Decision engine                                                         *)
(***************************************************************************)
\* x in lst, for a Python list
In(x, lst) == \E i \in DOMAIN lst : lst[i] = x

SUICIDAL_LABELS == {<<"s", "u", "i", "c", "i", "d", "a", "l">>,
                    <<"s", "u", "i", "c", "i", "d", "e">>}

\* the fixed policy constant of decide_action, in hundredths (0.55)
CONFIDENCE_THRESHOLD == 55

\* decide_action with the second clause of the critical rule dropped
decide_action_no_plan_rule(risk_label, confidence, flags) ==
    IF In("intent", flags) /\ In("time", flags)
    THEN "crisis_critical"
    ELSE IF flags # <<>>
    THEN "crisis_high"
    ELSE IF Lower(risk_label) \in SUICIDAL_LABELS
    THEN "crisis_high"
    ELSE IF confidence < CONFIDENCE_THRESHOLD
    THEN "uncertain_support"
    ELSE "normal"

\* decide_action asking for two flags before it escalates on flags alone
decide_action_two_flags(risk_label, confidence, flags) ==
    IF \/ (In("intent", flags) /\ In("time", flags))
       \/ (In("plan", flags) /\ (In("intent", flags) \/ In("time", flags)))
    THEN "crisis_critical"
    ELSE IF Len(flags) > 1
    THEN "crisis_high"
    ELSE IF Lower(risk_label) \in SUICIDAL_LABELS
    THEN "crisis_high"
    ELSE IF confidence < CONFIDENCE_THRESHOLD
    THEN "uncertain_support"
    ELSE "normal"

\* decide_action comparing the label without lower()
decide_action_case_sensitive(risk_label, confidence, flags) ==
    IF \/ (In("intent", flags) /\ In("time", flags))
       \/ (In("plan", flags) /\ (In("intent", flags) \/ In("time", flags)))
    THEN "crisis_critical"
    ELSE IF flags # <<>>
    THEN "crisis_high"
    ELSE IF risk_label \in SUICIDAL_LABELS
    THEN "crisis_high"
    ELSE IF confidence < CONFIDENCE_THRESHOLD
    THEN "uncertain_support"
    ELSE "normal"

\* decide_action with <= in place of < at the threshold
decide_action_threshold_le(risk_label, confidence, flags) ==
    IF \/ (In("intent", flags) /\ In("time", flags))
       \/ (In("plan", flags) /\ (In("intent", flags) \/ In("time", flags)))
    THEN "crisis_critical"
    ELSE IF flags # <<>>
    THEN "crisis_high"
    ELSE IF Lower(risk_label) \in SUICIDAL_LABELS
    THEN "crisis_high"
    ELSE IF confidence <= CONFIDENCE_THRESHOLD
    THEN "uncertain_support"
    ELSE "normal"

\* decide_action with the low-confidence rule ahead of the any-flag rule
decide_action_confidence_first(risk_label, confidence, flags) ==
    IF \/ (In("intent", flags) /\ In("time", flags))
       \/ (In("plan", flags) /\ (In("intent", flags) \/ In("time", flags)))
    THEN "crisis_critical"
    ELSE IF confidence < CONFIDENCE_THRESHOLD
    THEN "uncertain_support"
    ELSE IF flags # <<>>
    THEN "crisis_high"
    ELSE IF Lower(risk_label) \in SUICIDAL_LABELS
    THEN "crisis_high"
    ELSE "normal"

\* decide_action keeping crisis_critical for lists of at most two flags
decide_action_critical_up_to_two(risk_label, confidence, flags) ==
    IF /\ Len(flags) <= 2
       /\ \/ (In("intent", flags) /\ In("time", flags))
          \/ (In("plan", flags) /\ (In("intent", flags) \/ In("time", flags)))
    THEN "crisis_critical"
    ELSE IF flags # <<>>
    THEN "crisis_high"
    ELSE IF Lower(risk_label) \in SUICIDAL_LABELS
    THEN "crisis_high"
    ELSE IF confidence < CONFIDENCE_THRESHOLD
    THEN "uncertain_support"
    ELSE "normal"

\* decide_action(risk_label, confidence, flags)
decide_action(risk_label, confidence, flags) ==
    IF \/ (In("intent", flags) /\ In("time", flags))
       \/ (In("plan", flags) /\ (In("intent", flags) \/ In("time", flags)))
    THEN "crisis_critical"
    ELSE IF flags # <<>>
    THEN "crisis_high"
    ELSE IF Lower(risk_label) \in SUICIDAL_LABELS
    THEN "crisis_high"
    ELSE IF confidence < CONFIDENCE_THRESHOLD
    THEN "uncertain_support"
    ELSE "normal"

(***************************************************************************)
(* The legacy single-file implementation (backend/backend/main.py)         *)
(***************************************************************************)
\* INTENT_PATTERNS, TIME_PATTERNS, PLAN_PATTERNS and MEANS_PATTERNS of the
\* legacy module, each pattern as the set of its alternatives
LEGACY_PATTERNS ==
    [INTENT |-> <<
        {<<"i", " ", "w", "i", "l", "l">>,
         <<"i", " ", "a", "m", " ", "g", "o", "i", "n", "g", " ", "t", "o">>,
         <<"i", " ", "g", "o", "n", "n", "a">>},
        {<<"k", "i", "l", "l", " ", "m", "y", "s", "e", "l", "f">>,
         <<"e", "n", "d", " ", "m", "y", " ", "l", "i", "f", "e">>,
         <<"s", "u", "i", "c", "i", "d", "e">>},
        {<<"i", " ", "w", "a", "n", "t", " ", "t", "o", " ", "d", "i", "e">>,
         <<"i", " ", "d", "o", "n", "'", "t", " ", "w", "a", "n", "t", " ", "t", "o", " ", "l", "i", "v", "e">>},
        {<<"c", "a", "n", "'", "t", " ", "g", "o", " ", "o", "n">>,
         <<"n", "o", " ", "r", "e", "a", "s", "o", "n", " ", "t", "o", " ", "l", "i", "v", "e">>}
     >>,
     TIME |-> <<
        {<<"t", "o", "d", "a", "y">>,
         <<"t", "o", "n", "i", "g", "h", "t">>,
         <<"n", "o", "w">>,
         <<"r", "i", "g", "h", "t", " ", "n", "o", "w">>,
         <<"t", "h", "i", "s", " ", "e", "v", "e", "n", "i", "n", "g">>}
     >>,
     PLAN |-> <<
        {<<"i", " ", "h", "a", "v", "e", " ", "a", " ", "p", "l", "a", "n">>,
         <<"p", "l", "a", "n", "n", "e", "d", " ", "i", "t">>,
         <<"f", "i", "g", "u", "r", "e", "d", " ", "o", "u", "t", " ", "h", "o", "w">>}
     >>,
     MEANS |-> <<
        {<<"p", "i", "l", "l", "s">>,
         <<"o", "v", "e", "r", "d", "o", "s", "e">>,
         <<"r", "o", "p", "e">>,
         <<"k", "n", "i", "f", "e">>,
         <<"g", "u", "n">>,
         <<"p", "o", "i", "s", "o", "n">>}
     >>]

\* the legacy get_flags reporting plan whenever intent matched
legacy_get_flags_plan_with_intent(text) ==
    (IF match_any(LEGACY_PATTERNS.INTENT, text) THEN <<"intent">> ELSE <<>>)
    \o (IF match_any(LEGACY_PATTERNS.TIME, text) THEN <<"time">> ELSE <<>>)
    \o (IF match_any(LEGACY_PATTERNS.INTENT, text) THEN <<"plan">> ELSE <<>>)
    \o (IF match_any(LEGACY_PATTERNS.MEANS, text) THEN <<"means">> ELSE <<>>)

\* get_flags(text) of the legacy module
legacy_get_flags(text) ==
    (IF match_any(LEGACY_PATTERNS.INTENT, text) THEN <<"intent">> ELSE <<>>)
    \o (IF match_any(LEGACY_PATTERNS.TIME, text) THEN <<"time">> ELSE <<>>)
    \o (IF match_any(LEGACY_PATTERNS.PLAN, text) THEN <<"plan">> ELSE <<>>)
    \o (IF match_any(LEGACY_PATTERNS.MEANS, text) THEN <<"means">> ELSE <<>>)

\* decide_action(risk_label, confidence, flags) of the legacy module
legacy_decide_action(risk_label, confidence, flags) ==
    IF \/ (In("intent", flags) /\ In("time", flags))
       \/ (In("plan", flags) /\ (In("intent", flags) \/ In("time", flags)))
    THEN "crisis_critical"
    ELSE IF flags # <<>>
    THEN "crisis_high"
    ELSE IF Lower(risk_label) \in {<<"s", "u", "i", "c", "i", "d", "a", "l">>,
                                   <<"s", "u", "i", "c", "i", "d", "e">>}
    THEN "crisis_high"
    ELSE IF confidence < 55
    THEN "uncertain_support"
    ELSE "normal"

(***************************************************************************)
(* Inputs of the decision engine                                           *)
(***************************************************************************)
FLAG_NAMES == {"intent", "time", "plan", "means"}

\* every list of distinct flag names, in any order
FlagLists ==
    {s \in UNION {[1..n -> FLAG_NAMES] : n \in 0..4} :
        \A i, j \in DOMAIN s : i # j => s[i] # s[j]}

\* risk labels handed to decide_action: the classifier's labels in several letter
\* cases, near misses of the suicidal labels, and a numeric index as a string
DecisionLabels == {<<"n", "o", "r", "m", "a", "l">>,
                   <<"N", "o", "r", "m", "a", "l">>,
                   <<"A", "n", "x", "i", "e", "t", "y">>,
                   <<"D", "e", "p", "r", "e", "s", "s", "i", "o", "n">>,
                   <<"s", "u", "i", "c", "i", "d", "a", "l">>,
                   <<"S", "u", "i", "c", "i", "d", "a", "l">>,
                   <<"S", "U", "I", "C", "I", "D", "A", "L">>,
                   <<"s", "u", "i", "c", "i", "d", "e">>,
                   <<"S", "u", "I", "c", "I", "d", "E">>,
                   <<"s", "u", "i", "c", "i", "d", "a", "l", " ">>,
                   <<"s", "u", "i", "c", "i", "d", "e", "s">>,
                   <<"3">>}

\* confidences in [0, 1], in hundredths
Confidences == 0..100

(***************************************************************************)
(* Python values                                                           *)
(***************************************************************************)
None == [isNone |-> TRUE]

Some(v) == [isNone |-> FALSE, val |-> v]

\* a raised exception, and a returned value
Raise(exc) == [raised |-> TRUE, exc |-> exc]

Return(v) == [raised |-> FALSE, value |-> v]

\* one step of a handler, as the log shows it
Event(op, arg) == [op |-> op, arg |-> arg]

(***************************************************************************)
(* The classifier, the vectorizer and the request texts                    *)
(***************************************************************************)
\* model.classes_ of the trained classifier (sorted, as scikit-learn keeps them)
MODEL_CLASSES == <<
    <<"A", "n", "x", "i", "e", "t", "y">>,
    <<"D", "e", "p", "r", "e", "s", "s", "i", "o", "n">>,
    <<"N", "o", "r", "m", "a", "l">>,
    <<"S", "u", "i", "c", "i", "d", "a", "l">>
>>

\* a labels.json that relabels the four classes
LABELS_JSON == <<
    <<"a", "n", "x", "i", "e", "t", "y">>,
    <<"d", "e", "p", "r", "e", "s", "s", "i", "o", "n">>,
    <<"n", "o", "r", "m", "a", "l">>,
    <<"s", "u", "i", "c", "i", "d", "a", "l">>
>>

\* a labels.json with fewer entries than the classifier has classes
LABELS_JSON_SHORT == <<
    <<"a", "n", "x", "i", "e", "t", "y">>,
    <<"d", "e", "p", "r", "e", "s", "s", "i", "o", "n">>
>>

\* the fragments request texts are built from
Vocabulary == {
    <<" ">>,
    <<"I", " ", "a", "m", " ", "g", "o", "i", "n", "g", " ", "t", "o">>,
    <<"K", "I", "L", "L", " ", "m", "y", "s", "e", "l", "f">>,
    <<"t", "o", "n", "i", "g", "h", "t">>,
    <<"k", "n", "o", "w">>,
    <<"I", " ", "h", "a", "v", "e", " ", "a", " ", "P", "L", "A", "N">>,
    <<"p", "i", "l", "l", "s">>,
    <<"I", " ", "f", "e", "e", "l", " ", "a", "n", "x", "i", "o", "u", "s">>,
    <<"I", " ", "a", "m", " ", "g", "o", "i", "n", "g", " ", "t", "o", " ", "k", "i", "l", "l", " ", "m", "y", "s", "e", "l", "f", " ", "t", "o", "n", "i", "g", "h", "t">>
}

\* the texts posted to /ml/predict and /chat/message
Messages == {
    <<>>,
    <<" ">>,
    <<"I", " ", "f", "e", "e", "l", " ", "a", "n", "x", "i", "o", "u", "s">>,
    <<"I", " ", "a", "m", " ", "g", "o", "i", "n", "g", " ", "t", "o", " ", "k", "i", "l", "l", " ", "m", "y", "s", "e", "l", "f", " ", "t", "o", "n", "i", "g", "h", "t">>
}

\* prior turns of a conversation: a greeting, and a turn full of patterns
CONTEXT_TURN == <<"H", "e", "l", "l", "o">>

CRISIS_TURN ==
    <<"I", " ", "h", "a", "v", "e", " ", "a", " ", "p", "l", "a", "n", " ",
      "t", "o", "n", "i", "g", "h", "t">>

ContextTurns == {CONTEXT_TURN, CRISIS_TURN}

\* the longest request text, in fragments, and the longest conversation context
MaxWords == 2

MaxContext == 3

RECURSIVE Join(_)
\* " ".join(words)
Join(words) ==
    IF words = <<>> THEN <<>>
    ELSE IF Len(words) = 1 THEN words[1]
    ELSE words[1] \o <<" ">> \o Join(Tail(words))

\* the texts posted to /analyze
Texts == {Join(ws) : ws \in UNION {[1..n -> Vocabulary] : n \in 0..MaxWords}}

\* the context of an /analyze request: absent or one prior turn
AnalyzeContexts == {None, Some(<<CRISIS_TURN>>)}

\* probabilities in hundredths that predict_proba hands out
ProbGrid == {0, 30, 31, 40, 45, 46, 49, 50, 51, 54, 55, 69, 70, 100}

RECURSIVE SumSeq(_)
SumSeq(s) == IF s = <<>> THEN 0 ELSE Head(s) + SumSeq(Tail(s))

\* the rows predict_proba returns: one probability per class, summing to 1
ProbaVectors == {v \in [DOMAIN MODEL_CLASSES -> ProbGrid] : SumSeq(v) = 100}

\* numpy argmax: the first index of the largest entry
Argmax(v) == CHOOSE i \in DOMAIN v :
    /\ \A j \in DOMAIN v : v[j] <= v[i]
    /\ \A j \in DOMAIN v : j < i => v[j] < v[i]

\* a Python exception: its type and the text str(e) gives
Exception(type, message) == [type |-> type, message |-> message]

\* str(e)
Str(e) == e.message

\* the exceptions scikit-learn raises during inference
InferenceExceptions ==
    {Exception("ValueError",
               "X has 12 features, but LogisticRegression is expecting 5000 features"),
     Exception("AttributeError", "'NoneType' object has no attribute 'transform'")}

NoException == Exception("", "")

DefaultProba == [i \in DOMAIN MODEL_CLASSES |-> IF i = 1 THEN 100 ELSE 0]

\* What the vectorizer and the classifier do with one request: which call
\* raises (if any), the row predict_proba returns and the class predict
\* returns.  A classifier with predict_proba predicts the arg-max class (the
\* trained LogisticRegression); one without predicts any class.
RaisingOutcomes ==
    {[raises |-> call, exc |-> e, proba |-> DefaultProba, pred |-> 1] :
        call \in {"transform", "predict", "predict_proba"}, e \in InferenceExceptions}

ProbaOutcomes ==
    {[raises |-> "nothing", exc |-> NoException, proba |-> v, pred |-> Argmax(v)] :
        v \in ProbaVectors} \cup RaisingOutcomes

HardOutcomes ==
    {[raises |-> "nothing", exc |-> NoException, proba |-> DefaultProba, pred |-> k] :
        k \in DOMAIN MODEL_CLASSES} \cup RaisingOutcomes

ClassifierOutcomes(has_predict_proba) ==
    IF has_predict_proba THEN ProbaOutcomes ELSE HardOutcomes

NoOutcome == [raises |-> "nothing", exc |-> NoException, proba |-> DefaultProba, pred |-> 0]

(***************************************************************************)
(* The analysis application: backend/app/main.py                           *)
(***************************************************************************)
\* How the analysis application is deployed: the environment, whether the
\* model artifact exists, whether the artifact bundles a vectorizer, what the
\* classifier exposes, and labels.json.
AnalysisDeployments ==
    {[production |-> FALSE, artifact |-> TRUE, vectorizer |-> TRUE,
      has_predict_proba |-> TRUE, has_classes |-> TRUE, labels |-> None],
     [production |-> TRUE, artifact |-> TRUE, vectorizer |-> TRUE,
      has_predict_proba |-> TRUE, has_classes |-> TRUE, labels |-> Some(LABELS_JSON)],
     [production |-> FALSE, artifact |-> TRUE, vectorizer |-> TRUE,
      has_predict_proba |-> TRUE, has_classes |-> TRUE, labels |-> Some(LABELS_JSON_SHORT)],
     [production |-> FALSE, artifact |-> TRUE, vectorizer |-> TRUE,
      has_predict_proba |-> TRUE, has_classes |-> FALSE, labels |-> None],
     [production |-> FALSE, artifact |-> TRUE, vectorizer |-> FALSE,
      has_predict_proba |-> FALSE, has_classes |-> TRUE, labels |-> None],
     [production |-> FALSE, artifact |-> FALSE, vectorizer |-> FALSE,
      has_predict_proba |-> FALSE, has_classes |-> FALSE, labels |-> None],
     [production |-> TRUE, artifact |-> FALSE, vectorizer |-> FALSE,
      has_predict_proba |-> FALSE, has_classes |-> FALSE, labels |-> None]}

\* load_model_and_labels(): FileNotFoundError when the model file is missing
load_model_and_labels(deployed) ==
    IF ~deployed.artifact
    THEN Raise(Exception("FileNotFoundError", "Model file not found"))
    ELSE Return([vectorizer |-> deployed.vectorizer, labels |-> deployed.labels])

\* a module that swallows the load error in every environment
AnalysisStarted_in_any_mode(deployed) == TRUE

\* load_model_and_labels() at import: it raises when the artifact is
\* missing, and the module re-raises only in production
AnalysisStarted(deployed) ==
    ~load_model_and_labels(deployed).raised \/ ~deployed.production

\* Field(..., min_length=1, max_length=4000)
MIN_LENGTH == 1

MAX_LENGTH == 4000

\* str(best_idx), for the 0-based index numpy hands out
IndexStr(i) == <<CHOOSE d \in Digits : d = ToString(i - 1)>>

\* analyze, "2) Model prediction": the label and the confidence, or the
\* exception the try block catches
model_prediction(deployed, outcome) ==
    IF ~deployed.artifact
    THEN [raised |-> TRUE,
          exc |-> Exception("NameError", "name 'vectorizer' is not defined"),
          events |-> <<>>]
    ELSE IF deployed.vectorizer /\ outcome.raises = "transform"
    THEN [raised |-> TRUE, exc |-> outcome.exc,
          events |-> <<Event("vectorizer.transform", <<>>)>>]
    ELSE
    LET transformed == IF deployed.vectorizer
                       THEN <<Event("vectorizer.transform", <<>>)>> ELSE <<>>
    IN
    IF ~deployed.has_predict_proba
    THEN IF outcome.raises = "predict"
         THEN [raised |-> TRUE, exc |-> outcome.exc,
               events |-> transformed \o <<Event("model.predict", <<>>)>>]
         ELSE [raised |-> FALSE, risk_label |-> MODEL_CLASSES[outcome.pred],
               confidence |-> 100,
               events |-> transformed \o <<Event("model.predict", <<>>)>>]
    ELSE IF outcome.raises = "predict_proba"
    THEN [raised |-> TRUE, exc |-> outcome.exc,
          events |-> transformed \o <<Event("model.predict_proba", <<>>)>>]
    ELSE
    LET proba == outcome.proba
        best_idx == Argmax(proba)
        confidence == proba[best_idx]
        called == transformed \o <<Event("model.predict_proba", <<>>)>>
    IN  IF ~deployed.labels.isNone
        THEN IF best_idx > Len(deployed.labels.val)
             THEN [raised |-> TRUE,
                   exc |-> Exception("IndexError", "list index out of range"),
                   events |-> called]
             ELSE [raised |-> FALSE, risk_label |-> deployed.labels.val[best_idx],
                   confidence |-> confidence, events |-> called]
        ELSE IF deployed.has_classes
        THEN [raised |-> FALSE, risk_label |-> MODEL_CLASSES[best_idx],
              confidence |-> confidence, events |-> called]
        ELSE [raised |-> FALSE, risk_label |-> IndexStr(best_idx),
              confidence |-> confidence, events |-> called]

\* raise HTTPException(status_code, detail)
HTTPError(status_code, detail) == [status |-> status_code, detail |-> detail]

\* analyze matching the patterns in the prior turns as well as in the text
analyze_flags_with_context(request) ==
    IF Len(request.text) < MIN_LENGTH \/ Len(request.text) > MAX_LENGTH
    THEN [rejected |-> TRUE, text |-> request.text, flags |-> <<>>, events |-> <<>>]
    ELSE LET text == Strip(request.text)
             turns == IF request.context.isNone THEN <<>> ELSE request.context.val
         IN  [rejected |-> FALSE, text |-> text,
              flags |-> get_flags(Join(<<text>> \o turns)),
              events |-> <<Event("get_flags", text)>>]

\* POST /analyze, up to "1) Extract rule-based flags": the request is
\* validated against AnalyzeRequest, the text is stripped and get_flags runs
analyze_flags(request) ==
    IF Len(request.text) < MIN_LENGTH \/ Len(request.text) > MAX_LENGTH
    THEN [rejected |-> TRUE, text |-> request.text, flags |-> <<>>, events |-> <<>>]
    ELSE LET text == Strip(request.text)
         IN  [rejected |-> FALSE, text |-> text, flags |-> get_flags(text),
              events |-> <<Event("get_flags", text)>>]

\* analyze_decide deciding on the classifier's output alone
analyze_decide_without_flags(deployed, matched, outcome) ==
    LET predicted == model_prediction(deployed, outcome)
    IN  IF predicted.raised
        THEN [response |-> HTTPError(500, "Model prediction failed"),
              events |-> matched.events \o predicted.events
                         \o <<Event("prediction_failed", <<>>)>>]
        ELSE [response |->
                 [status |-> 200,
                  risk_label |-> predicted.risk_label,
                  confidence |-> predicted.confidence,
                  flags |-> matched.flags,
                  recommended_action |->
                      decide_action(predicted.risk_label, predicted.confidence, <<>>)],
              events |-> matched.events \o predicted.events
                         \o <<Event("decide_action", <<>>)>>]

\* POST /analyze, "2) Model prediction" and "3) Decide action": the response
\* and the steps taken, given what analyze_flags found
analyze_decide(deployed, matched, outcome) ==
    LET predicted == model_prediction(deployed, outcome)
    IN  IF predicted.raised
        THEN [response |-> HTTPError(500, "Model prediction failed"),
              events |-> matched.events \o predicted.events
                         \o <<Event("prediction_failed", <<>>)>>]
        ELSE [response |->
                 [status |-> 200,
                  risk_label |-> predicted.risk_label,
                  confidence |-> predicted.confidence,
                  flags |-> matched.flags,
                  recommended_action |->
                      decide_action(predicted.risk_label, predicted.confidence,
                                    matched.flags)],
              events |-> matched.events \o predicted.events
                         \o <<Event("decide_action", <<>>)>>]

(***************************************************************************)
(* The chat application: app/services/ml_service.py,                       *)
(* app/services/chatbot_service.py, app/api/routes/ml.py and chat.py       *)
(***************************************************************************)
ANXIETY == <<"A", "n", "x", "i", "e", "t", "y">>

DEPRESSION == <<"D", "e", "p", "r", "e", "s", "s", "i", "o", "n">>

SUICIDAL == <<"S", "u", "i", "c", "i", "d", "a", "l">>

NORMAL == <<"N", "o", "r", "m", "a", "l">>

\* The artifact MLService loads: whether it exists, whether its classifier
\* has predict_proba, and its 'classes' entry.
MLBundles ==
    {[artifact |-> TRUE, has_predict_proba |-> TRUE, classes |-> MODEL_CLASSES],
     [artifact |-> TRUE, has_predict_proba |-> FALSE, classes |-> MODEL_CLASSES],
     [artifact |-> TRUE, has_predict_proba |-> TRUE,
      classes |-> SubSeq(MODEL_CLASSES, 1, Len(MODEL_CLASSES) - 1)],
     [artifact |-> TRUE, has_predict_proba |-> TRUE,
      classes |-> MODEL_CLASSES \o <<<<"S", "t", "r", "e", "s", "s">>>>],
     [artifact |-> FALSE, has_predict_proba |-> FALSE, classes |-> <<>>]}

\* the empty dict
EmptyDict == <<>>

\* dict(zip(keys, values)): zip stops at the shorter list, a later pair of
\* the same key replaces an earlier one
ZipDict(keys, values) ==
    LET n == IF Len(keys) < Len(values) THEN Len(keys) ELSE Len(values)
    IN  [k \in {keys[i] : i \in 1..n} |->
            values[CHOOSE i \in 1..n : keys[i] = k /\ \A j \in 1..n : keys[j] = k => j <= i]]

\* d.get(key, default)
DictGet(d, key, default) == IF key \in DOMAIN d THEN d[key] ELSE default

\* MLService.predict, the try block: the result dict, or the exception raised
predict_try_block(bundle, text, outcome) ==
    IF outcome.raises = "transform" THEN Raise(outcome.exc)
    ELSE IF outcome.raises = "predict" THEN Raise(outcome.exc)
    ELSE LET prediction == MODEL_CLASSES[outcome.pred]
         IN  IF ~bundle.has_predict_proba
             THEN Return([prediction |-> Some(prediction),
                          probabilities |-> EmptyDict,
                          status |-> "success"])
             ELSE IF outcome.raises = "predict_proba" THEN Raise(outcome.exc)
             ELSE Return([prediction |-> Some(prediction),
                          probabilities |-> ZipDict(bundle.classes, outcome.proba),
                          status |-> "success"])

\* MLService.predict with an except clause that lets the exception go
MLService_predict_uncaught(bundle, text, outcome) == predict_try_block(bundle, text, outcome)

\* MLService.predict(text): the try block, and the except clause that turns
\* every exception into an error result
MLService_predict(bundle, text, outcome) ==
    LET tried == predict_try_block(bundle, text, outcome)
    IN  IF tried.raised
        THEN Return([prediction |-> None,
                     probabilities |-> EmptyDict,
                     status |-> "error",
                     message |-> Str(tried.exc)])
        ELSE tried

\* TextInput: Field(..., min_length=10, max_length=5000), and the validator
TEXT_MIN_LENGTH == 10

TEXT_MAX_LENGTH == 5000

TextInputValid(text) ==
    /\ Len(text) >= TEXT_MIN_LENGTH
    /\ Len(text) <= TEXT_MAX_LENGTH
    /\ Len(Strip(text)) >= TEXT_MIN_LENGTH

\* the reply of the server to an exception no handler catches
INTERNAL_SERVER_ERROR == HTTPError(500, "Internal Server Error")

\* POST /ml/predict: the response, the steps taken and what MLService.predict gave
predict_mental_health(bundle, request, outcome) ==
    IF ~bundle.artifact
    THEN [response |-> INTERNAL_SERVER_ERROR, events |-> <<>>, ml_result |-> None]
    ELSE IF ~TextInputValid(request.text)
    THEN [response |-> HTTPError(422, "validation error"), events |-> <<>>,
          ml_result |-> None]
    ELSE
    LET text == Strip(request.text)
        result == MLService_predict(bundle, text, outcome)
        called == <<Event("MLService.predict", text)>>
    IN  IF result.raised
        THEN [response |-> INTERNAL_SERVER_ERROR,
              events |-> called \o <<Event("prediction_failed", <<>>)>>,
              ml_result |-> Some(result)]
        ELSE IF result.value.status = "error"
        THEN [response |->
                 HTTPError(500, IF "message" \in DOMAIN result.value
                                THEN result.value.message ELSE "Prediction failed"),
              events |-> called \o <<Event("prediction_failed", <<>>)>>,
              ml_result |-> Some(result)]
        ELSE [response |-> [status |-> 200,
                            prediction |-> result.value.prediction,
                            probabilities |-> result.value.probabilities,
                            body_status |-> result.value.status],
              events |-> called,
              ml_result |-> Some(result)]

\* ChatbotService: the fixed replies, the thresholds and the crisis resources
FALLBACK_REPHRASE ==
    "I'm having trouble processing that right now. Could you try rephrasing?"

FALLBACK_TECHNICAL ==
    "I'm here to help, but I'm experiencing a technical issue. Please try again."

CRISIS_RESOURCES ==
    [hotlines |->
        <<"National Suicide Prevention Lifeline: 988 or 1-800-273-8255",
          "Crisis Text Line: Text HOME to 741741",
          "International Association for Suicide Prevention: https://www.iasp.info/resources/Crisis_Centres/">>]

\* probabilities.get("Suicidal", 0) > 0.3
CRISIS_PROBABILITY == 30

\* confidence < 0.5
FOLLOW_UP_CONFIDENCE == 50

\* len(conversation_context) > 2
CONTEXT_TURNS == 2

\* the keys of response_templates, three templates each, and the three
\* empathy prefixes
TEMPLATE_BUCKETS == {ANXIETY, DEPRESSION, SUICIDAL, NORMAL}

TemplateVariants == 1..3

EmpathyPrefixes == 1..3

\* what random.choice picks in one call of _get_contextual_response
RandomChoices == [template : TemplateVariants, prefix : EmpathyPrefixes]

\* a fixed reply text
FixedReply(text) == [fixed |-> text]

\* _get_contextual_response asking the follow-up question at 0.5 as well
get_contextual_response_at_half(prediction, probabilities, conversation_context, choice) ==
    LET bucket == IF prediction \in TEMPLATE_BUCKETS THEN prediction ELSE NORMAL
        follows_up == /\ ~conversation_context.isNone
                      /\ Len(conversation_context.val) > CONTEXT_TURNS
        prefixed == follows_up /\ prediction \in {ANXIETY, DEPRESSION, SUICIDAL}
        confidence == DictGet(probabilities, prediction, 0)
    IN  [template |-> [bucket |-> bucket, variant |-> choice.template],
         prefix |-> IF prefixed THEN choice.prefix ELSE 0,
         lowered |-> prefixed,
         follow_up |-> (confidence <= FOLLOW_UP_CONFIDENCE /\ prediction # NORMAL)]

\* ChatbotService._get_contextual_response: the reply is a template of the
\* prediction's bucket, with an empathy prefix (and the template lowered)
\* and the follow-up question where they apply
get_contextual_response(prediction, probabilities, conversation_context, choice) ==
    LET bucket == IF prediction \in TEMPLATE_BUCKETS THEN prediction ELSE NORMAL
        follows_up == /\ ~conversation_context.isNone
                      /\ Len(conversation_context.val) > CONTEXT_TURNS
        prefixed == follows_up /\ prediction \in {ANXIETY, DEPRESSION, SUICIDAL}
        confidence == DictGet(probabilities, prediction, 0)
    IN  [template |-> [bucket |-> bucket, variant |-> choice.template],
         prefix |-> IF prefixed THEN choice.prefix ELSE 0,
         lowered |-> prefixed,
         follow_up |-> (confidence < FOLLOW_UP_CONFIDENCE /\ prediction # NORMAL)]

\* ChatbotService(): the singleton.  __new__ hands out the one instance and
\* __init__ returns at once when it is initialized; otherwise get_ml_service()
\* raises FileNotFoundError without the artifact, and with it the templates
\* and the crisis resources are set.
get_chatbot_service(instance, bundle) ==
    IF ~instance.isNone THEN Return(instance.val)
    ELSE IF ~bundle.artifact
    THEN Raise(Exception("FileNotFoundError", "Model not found"))
    ELSE Return([crisis_resources |-> CRISIS_RESOURCES])

\* crisis_detected with the threshold itself counted as a crisis
crisis_detected_at_threshold(prediction, probabilities) ==
    \/ prediction = SUICIDAL
    \/ DictGet(probabilities, SUICIDAL, 0) >= CRISIS_PROBABILITY

\* generate_response, "Add crisis resources if needed":
\* prediction == "Suicidal" or probabilities.get("Suicidal", 0) > 0.3
crisis_detected(prediction, probabilities) ==
    \/ prediction = SUICIDAL
    \/ DictGet(probabilities, SUICIDAL, 0) > CRISIS_PROBABILITY

\* requires_professional_help decided on the label alone
requires_professional_help_label_only(crisis, prediction) ==
    prediction \in {SUICIDAL, DEPRESSION}

\* crisis_detected or prediction in ["Suicidal", "Depression"]
requires_professional_help(crisis, prediction) ==
    crisis \/ prediction \in {SUICIDAL, DEPRESSION}

\* ChatbotService.generate_response: the result dict and what
\* MLService.predict gave
generate_response(self, bundle, user_message, conversation_context, outcome, choice) ==
    LET prediction_result == MLService_predict(bundle, user_message, outcome)
    IN  IF prediction_result.raised
        THEN [result |-> [response |-> FixedReply(FALLBACK_TECHNICAL),
                          prediction |-> None,
                          probabilities |-> EmptyDict,
                          status |-> "error",
                          error |-> Str(prediction_result.exc)],
              ml_result |-> Some(prediction_result)]
        ELSE IF prediction_result.value.status = "error"
        THEN [result |-> [response |-> FixedReply(FALLBACK_REPHRASE),
                          prediction |-> None,
                          probabilities |-> EmptyDict,
                          status |-> "error"],
              ml_result |-> Some(prediction_result)]
        ELSE
        LET prediction == prediction_result.value.prediction.val
            probabilities == prediction_result.value.probabilities
            crisis == crisis_detected(prediction, probabilities)
        IN  [result |->
                [response |-> get_contextual_response(prediction, probabilities,
                                                       conversation_context, choice),
                 prediction |-> Some(prediction),
                 probabilities |-> probabilities,
                 status |-> "success",
                 crisis_detected |-> crisis,
                 requires_professional_help |->
                     requires_professional_help(crisis, prediction),
                 crisis_resources |->
                     IF crisis THEN Some(self.crisis_resources) ELSE None],
             ml_result |-> Some(prediction_result)]

\* ChatRequest: Field(..., min_length=1, max_length=5000), and the validator
MESSAGE_MIN_LENGTH == 1

MESSAGE_MAX_LENGTH == 5000

ChatRequestValid(message) ==
    /\ Len(message) >= MESSAGE_MIN_LENGTH
    /\ Len(message) <= MESSAGE_MAX_LENGTH
    /\ Len(Strip(message)) # 0

\* the conversations a process may commit, and the conversation histories
\* a chat request carries
MaxConversations == 2

ChatContexts ==
    {None} \cup {Some([i \in 1..n |-> turn]) : n \in 0..MaxContext, turn \in ContextTurns}

\* the committed rows: the default user, and the conversations with their
\* messages (of a row, the columns the handler computes)
EmptyDatabase == [user |-> FALSE, conversations |-> <<>>]

MessageRow(role, crisis) == [role |-> role, crisis_detected |-> crisis]

\* send_message committing the user's message when the generation reports
\* an error
send_message_keeping_user_message(database, bundle, chatbot_service, request, outcome, choice, database_ok) ==
    IF chatbot_service.raised
    THEN [response |-> INTERNAL_SERVER_ERROR, events |-> <<>>,
          database |-> database, ml_result |-> None]
    ELSE IF ~ChatRequestValid(request.text)
    THEN [response |-> HTTPError(422, "validation error"), events |-> <<>>,
          database |-> database, ml_result |-> None]
    ELSE IF ~database_ok
    THEN [response |-> HTTPError(500, "Failed to process message"), events |-> <<>>,
          database |-> database, ml_result |-> None]
    ELSE
    LET message == Strip(request.text)
        generated == generate_response(chatbot_service.value, bundle, message,
                                       request.context, outcome, choice)
        result == generated.result
        called == <<Event("MLService.predict", message)>>
    IN  IF result.status = "error"
        THEN [response |-> HTTPError(500, "Failed to generate response"),
              events |-> called \o <<Event("prediction_failed", <<>>)>>,
              database |->
                  [user |-> TRUE,
                   conversations |->
                       Append(database.conversations,
                              [message_count |-> 0,
                               crisis_detected |-> FALSE,
                               messages |-> <<MessageRow("user", FALSE)>>])],
              ml_result |-> generated.ml_result]
        ELSE [response |-> [status |-> 200,
                            response |-> result.response,
                            prediction |-> result.prediction,
                            probabilities |-> result.probabilities,
                            crisis_detected |-> result.crisis_detected,
                            requires_professional_help |->
                                result.requires_professional_help,
                            crisis_resources |-> result.crisis_resources,
                            body_status |-> "success"],
              events |-> called,
              database |->
                  [user |-> TRUE,
                   conversations |->
                       Append(database.conversations,
                              [message_count |-> 0 + 2,
                               crisis_detected |-> result.crisis_detected,
                               messages |-> <<MessageRow("user", FALSE),
                                              MessageRow("assistant",
                                                         result.crisis_detected)>>])],
              ml_result |-> generated.ml_result]

\* POST /chat/message: the response, the steps taken, the committed rows
\* afterwards and what MLService.predict gave.  database_ok is whether the
\* database answers; when it does not, the first statement raises.
send_message(database, bundle, chatbot_service, request, outcome, choice, database_ok) ==
    IF chatbot_service.raised
    THEN [response |-> INTERNAL_SERVER_ERROR, events |-> <<>>,
          database |-> database, ml_result |-> None]
    ELSE IF ~ChatRequestValid(request.text)
    THEN [response |-> HTTPError(422, "validation error"), events |-> <<>>,
          database |-> database, ml_result |-> None]
    ELSE IF ~database_ok
    THEN \* except Exception: await db.rollback()
         [response |-> HTTPError(500, "Failed to process message"), events |-> <<>>,
          database |-> database, ml_result |-> None]
    ELSE
    LET message == Strip(request.text)
        generated == generate_response(chatbot_service.value, bundle, message,
                                       request.context, outcome, choice)
        result == generated.result
        called == <<Event("MLService.predict", message)>>
    IN  IF result.status = "error"
        THEN \* raise HTTPException; get_db rolls the session back
             [response |->
                 HTTPError(500, IF "error" \in DOMAIN result
                                THEN result.error ELSE "Failed to generate response"),
              events |-> called \o <<Event("prediction_failed", <<>>)>>,
              database |-> database,
              ml_result |-> generated.ml_result]
        ELSE
        LET conversation ==
                [message_count |-> 0 + 2,
                 crisis_detected |-> result.crisis_detected,
                 messages |-> <<MessageRow("user", FALSE),
                                MessageRow("assistant", result.crisis_detected)>>]
        IN  \* await db.commit()
            [response |-> [status |-> 200,
                           response |-> result.response,
                           prediction |-> result.prediction,
                           probabilities |-> result.probabilities,
                           crisis_detected |-> result.crisis_detected,
                           requires_professional_help |->
                               result.requires_professional_help,
                           crisis_resources |-> result.crisis_resources,
                           body_status |-> "success"],
             events |-> called,
             database |-> [user |-> TRUE,
                           conversations |-> Append(database.conversations, conversation)],
             ml_result |-> generated.ml_result]

\* get_crisis_resources handing out the list and dropping its first entry
get_crisis_resources_consuming(chatbot_service) ==
    IF chatbot_service.raised
    THEN [response |-> INTERNAL_SERVER_ERROR, chatbot_service |-> None]
    ELSE [response |-> [status |-> 200,
                        resources |-> chatbot_service.value.crisis_resources,
                        body_status |-> "success"],
          chatbot_service |->
              Some([chatbot_service.value EXCEPT
                       !.crisis_resources.hotlines = Tail(@)])]

\* GET /chat/crisis-resources: the response, and the service afterwards
\* (None when it could not be constructed)
get_crisis_resources(chatbot_service) ==
    IF chatbot_service.raised
    THEN [response |-> INTERNAL_SERVER_ERROR, chatbot_service |-> None]
    ELSE [response |-> [status |-> 200,
                        resources |-> chatbot_service.value.crisis_resources,
                        body_status |-> "success"],
          chatbot_service |-> Some(chatbot_service.value)]

\* the threads of the thread pool that resolve the dependencies of
\* concurrent requests
MaxThreads == 2

Threads == 1..MaxThreads

\* a thread before its request: where it stands, the endpoint it serves, the
\* MLService and ChatbotService objects it holds (0: none), where
\* get_ml_service() returns to, and how its request ended
ThreadStart ==
    [pc |-> "idle", kind |-> "none", ml |-> 0, cb |-> 0, ret |-> "none",
     result |-> "none"]

\* the process before any request: MLService._instance and
\* ChatbotService._instance are None, the lru_cache is empty, nothing loaded
HeapStart ==
    [ml_instance |-> 0, ml_cache |-> 0, ml_objects |-> <<>>, loads |-> 0,
     cb_instance |-> 0, cb_objects |-> <<>>]

\* super().__new__(cls): an object without attributes
NewMLObject == [initialized |-> "unset", writes |-> 0]

NewChatbotObject ==
    [initialized |-> "unset", ml_service |-> FALSE, response_templates |-> FALSE,
     crisis_resources |-> FALSE]

VARIABLES
    d_label,      \* decide_action: risk_label
    d_confidence, \* decide_action: confidence
    d_flags,      \* decide_action: flags
    d_action,     \* decide_action: the returned action, "none" before the call
    d_calls,      \* the calls of decide_action completed earlier, with their results
    service,      \* the application this process runs: "analysis" or "chat"
    deployment,   \* what was found at startup (artifact, labels, classifier shape)
    pc,           \* "idle", "received" (a request awaits its handler), "responded"
    req,          \* the request being served
    clf,          \* what the vectorizer and the classifier do with this request
    events,       \* the steps the handler has taken for this request
    ml_result,    \* what MLService.predict returned or raised for this request
    resp,         \* the response sent for this request
    db,           \* the rows committed to the database
    chatbot_instance, \* ChatbotService._instance once initialized, None before
    a_served,     \* the /analyze requests answered earlier: their texts and flags
    f_text,       \* get_flags: text
    f_flags,      \* get_flags: the returned list, None before the call
    threads,      \* the threads resolving get_ml_service / get_chatbot_service
    heap          \* the class attributes, the lru_cache and the objects they share

vars == <<d_label, d_confidence, d_flags, d_action, d_calls,
          service, deployment, pc, req, clf, events, ml_result, resp, db,
          chatbot_instance, a_served, f_text, f_flags, threads, heap>>

flags_vars == <<f_text, f_flags>>

thread_vars == <<threads, heap>>

decide_vars == <<d_label, d_confidence, d_flags, d_action, d_calls>>

api_vars == <<service, deployment, pc, req, clf, events, ml_result, resp, db,
              chatbot_instance, a_served>>

NoRequest == [endpoint |-> "none", text |-> <<>>, context |-> None]

NoResponse == [status |-> 0]

\* the process before any request
ApiIdle ==
    /\ pc = "idle"
    /\ req = NoRequest
    /\ clf = NoOutcome
    /\ events = <<>>
    /\ ml_result = None
    /\ resp = NoResponse

(***************************************************************************)
(* DecideSpec: decide_action applied to every input                        *)
(***************************************************************************)
DecideInit ==
    /\ d_label \in DecisionLabels
    /\ d_confidence \in Confidences
    /\ d_flags \in FlagLists
    /\ d_action = "none"
    /\ d_calls = {}
    /\ service = "analysis"
    /\ deployment = CHOOSE d \in AnalysisDeployments : d.artifact /\ d.labels = None
                                                      /\ d.has_predict_proba /\ d.has_classes
    /\ db = EmptyDatabase
    /\ chatbot_instance = None
    /\ a_served = {}
    /\ f_text = <<>>
    /\ f_flags = None
    /\ threads = <<>>
    /\ heap = HeapStart
    /\ ApiIdle

\* a call whose result depends on the calls made before it: once a crisis
\* action was returned, an input without flags gets crisis_high
Decide_remembering ==
    /\ d_action = "none"
    /\ d_action' =
          IF d_flags = <<>> /\ \E c \in d_calls : c.action # "normal"
          THEN "crisis_high"
          ELSE decide_action(d_label, d_confidence, d_flags)
    /\ UNCHANGED <<d_label, d_confidence, d_flags, d_calls>>
    /\ UNCHANGED <<api_vars, flags_vars, thread_vars>>

Decide ==
    /\ d_action = "none"
    /\ d_action' = decide_action(d_label, d_confidence, d_flags)
    /\ UNCHANGED <<d_label, d_confidence, d_flags, d_calls>>
    /\ UNCHANGED <<api_vars, flags_vars, thread_vars>>

DecideNext == Decide

DecideSpec == DecideInit /\ [][DecideNext]_vars

(***************************************************************************)
(* FlagsSpec: get_flags applied to every text                              *)
(***************************************************************************)
FlagsInit ==
    /\ f_text \in Texts
    /\ f_flags = None
    /\ d_label = <<>>
    /\ d_confidence = 0
    /\ d_flags = <<>>
    /\ d_action = "none"
    /\ d_calls = {}
    /\ service = "analysis"
    /\ deployment = CHOOSE d \in AnalysisDeployments : d.artifact /\ d.labels = None
                                                      /\ d.has_predict_proba /\ d.has_classes
    /\ db = EmptyDatabase
    /\ chatbot_instance = None
    /\ a_served = {}
    /\ threads = <<>>
    /\ heap = HeapStart
    /\ ApiIdle

GetFlags ==
    /\ f_flags = None
    /\ f_flags' = Some(get_flags(f_text))
    /\ UNCHANGED f_text
    /\ UNCHANGED <<api_vars, decide_vars, thread_vars>>

FlagsNext == GetFlags

FlagsSpec == FlagsInit /\ [][FlagsNext]_vars

(***************************************************************************)
(* LegacySpec: the legacy module's get_flags and decide_action are called  *)
(***************************************************************************)
LegacyInit ==
    /\ \/ /\ f_text \in Texts
          /\ d_label = <<>>
          /\ d_confidence = 0
          /\ d_flags = <<>>
       \/ /\ f_text = <<>>
          /\ d_label \in DecisionLabels
          /\ d_confidence \in ProbGrid
          /\ d_flags \in FlagLists
    /\ f_flags = None
    /\ d_action = "none"
    /\ d_calls = {}
    /\ service = "analysis"
    /\ deployment = CHOOSE d \in AnalysisDeployments : d.artifact /\ d.labels = None
                                                      /\ d.has_predict_proba /\ d.has_classes
    /\ db = EmptyDatabase
    /\ chatbot_instance = None
    /\ a_served = {}
    /\ threads = <<>>
    /\ heap = HeapStart
    /\ ApiIdle

LegacyGetFlags ==
    /\ f_flags = None
    /\ f_flags' = Some(legacy_get_flags(f_text))
    /\ UNCHANGED f_text
    /\ UNCHANGED <<api_vars, decide_vars, thread_vars>>

LegacyDecide ==
    /\ d_action = "none"
    /\ d_action' = legacy_decide_action(d_label, d_confidence, d_flags)
    /\ UNCHANGED <<d_label, d_confidence, d_flags, d_calls>>
    /\ UNCHANGED <<api_vars, flags_vars, thread_vars>>

LegacyNext == LegacyGetFlags \/ LegacyDecide

LegacySpec == LegacyInit /\ [][LegacyNext]_vars

(***************************************************************************)
(* DecideCallsSpec: decide_action called again and again                   *)
(***************************************************************************)
\* the calls one process may make before the log is full
MaxCalls == 2

\* the inputs of the repeated calls
CallLabels == {NORMAL, SUICIDAL}

CallConfidences == {54, 55}

CallFlagLists == {<<>>, <<"means">>, <<"intent", "time">>}

\* one call and the action it returned
CallRecord(risk_label, confidence, flags, action) ==
    [risk_label |-> risk_label, confidence |-> confidence, flags |-> flags,
     action |-> action]

DecideCallsInit ==
    /\ d_label \in CallLabels
    /\ d_confidence \in CallConfidences
    /\ d_flags \in CallFlagLists
    /\ d_action = "none"
    /\ d_calls = {}
    /\ service = "analysis"
    /\ deployment = CHOOSE d \in AnalysisDeployments : d.artifact /\ d.labels = None
                                                      /\ d.has_predict_proba /\ d.has_classes
    /\ db = EmptyDatabase
    /\ chatbot_instance = None
    /\ a_served = {}
    /\ f_text = <<>>
    /\ f_flags = None
    /\ threads = <<>>
    /\ heap = HeapStart
    /\ ApiIdle

\* the call has returned and the next one is made, with any arguments
DecideAgain ==
    /\ d_action # "none"
    /\ Cardinality(d_calls) < MaxCalls
    /\ d_calls' = d_calls \cup {CallRecord(d_label, d_confidence, d_flags, d_action)}
    /\ d_label' \in CallLabels
    /\ d_confidence' \in CallConfidences
    /\ d_flags' \in CallFlagLists
    /\ d_action' = "none"
    /\ UNCHANGED <<api_vars, flags_vars, thread_vars>>

DecideCallsNext == Decide \/ DecideAgain

DecideCallsSpec == DecideCallsInit /\ [][DecideCallsNext]_vars

(***************************************************************************)
(* Spec: the applications serving requests                                 *)
(***************************************************************************)
Init ==
    /\ d_label = <<>>
    /\ d_confidence = 0
    /\ d_flags = <<>>
    /\ d_action = "none"
    /\ d_calls = {}
    /\ \/ service = "analysis" /\ deployment \in AnalysisDeployments
       \/ service = "chat" /\ deployment \in MLBundles
    /\ db = EmptyDatabase
    /\ chatbot_instance = None
    /\ a_served = {}
    /\ f_text = <<>>
    /\ f_flags = None
    /\ threads = <<>>
    /\ heap = HeapStart
    /\ ApiIdle

\* whether the process came up and serves requests
Started ==
    IF service = "analysis" THEN AnalysisStarted(deployment) ELSE TRUE

\* a client posts a request
Request ==
    /\ pc = "idle"
    /\ Started
    /\ \/ /\ service = "analysis"
          /\ \E text \in Texts : \E context \in AnalyzeContexts :
                req' = [endpoint |-> "analyze", text |-> text, context |-> context]
       \/ /\ service = "chat"
          /\ \E text \in Messages :
                req' = [endpoint |-> "ml_predict", text |-> text, context |-> None]
       \/ /\ service = "chat"
          /\ Len(db.conversations) < MaxConversations
          /\ \E text \in Messages : \E context \in ChatContexts :
                req' = [endpoint |-> "chat_message", text |-> text, context |-> context]
       \/ /\ service = "chat"
          /\ req' = [endpoint |-> "crisis_resources", text |-> <<>>, context |-> None]
    /\ pc' = "received"
    /\ UNCHANGED <<service, deployment, clf, events, ml_result, resp, db,
                   chatbot_instance>>
    /\ UNCHANGED <<decide_vars, flags_vars, thread_vars, a_served>>

\* POST /analyze with a flag list that outlives the request: the flags of the
\* requests answered earlier are still in it
Analyze_carrying_flags ==
    /\ pc = "received"
    /\ req.endpoint = "analyze"
    /\ \E matched \in {analyze_flags(req)} :
           IF matched.rejected
           THEN /\ clf' = NoOutcome
                /\ events' = matched.events
                /\ resp' = HTTPError(422, "validation error")
           ELSE \E outcome \in ClassifierOutcomes(deployment.has_predict_proba) :
                   LET kept == UNION {{s.flags[i] : i \in DOMAIN s.flags} : s \in a_served}
                               \cup {matched.flags[i] : i \in DOMAIN matched.flags}
                       carried == [matched EXCEPT !.flags =
                                      SelectSeq(<<"intent", "time", "plan", "means">>,
                                                LAMBDA f : f \in kept)]
                       served == analyze_decide(deployment, carried, outcome)
                   IN  /\ clf' = outcome
                       /\ events' = served.events
                       /\ resp' = served.response
    /\ pc' = "responded"
    /\ UNCHANGED <<service, deployment, req, ml_result, db, chatbot_instance>>
    /\ UNCHANGED <<decide_vars, flags_vars, thread_vars, a_served>>

\* POST /analyze is served
Analyze ==
    /\ pc = "received"
    /\ req.endpoint = "analyze"
    /\ \E matched \in {analyze_flags(req)} :
           IF matched.rejected
           THEN /\ clf' = NoOutcome
                /\ events' = matched.events
                /\ resp' = HTTPError(422, "validation error")
           ELSE \E outcome \in ClassifierOutcomes(deployment.has_predict_proba) :
                   LET served == analyze_decide(deployment, matched, outcome)
                   IN  /\ clf' = outcome
                       /\ events' = served.events
                       /\ resp' = served.response
    /\ pc' = "responded"
    /\ UNCHANGED <<service, deployment, req, ml_result, db, chatbot_instance>>
    /\ UNCHANGED <<decide_vars, flags_vars, thread_vars, a_served>>

\* POST /ml/predict is served
PredictMentalHealth ==
    /\ pc = "received"
    /\ req.endpoint = "ml_predict"
    /\ \E outcome \in ClassifierOutcomes(deployment.has_predict_proba) :
          \E served \in {predict_mental_health(deployment, req, outcome)} :
              /\ clf' = (IF served.ml_result.isNone THEN NoOutcome ELSE outcome)
              /\ events' = served.events
              /\ ml_result' = served.ml_result
              /\ resp' = served.response
    /\ pc' = "responded"
    /\ UNCHANGED <<service, deployment, req, db, chatbot_instance>>
    /\ UNCHANGED <<decide_vars, flags_vars, thread_vars, a_served>>

\* POST /chat/message is served
SendMessage ==
    /\ pc = "received"
    /\ req.endpoint = "chat_message"
    /\ \E chatbot_service \in {get_chatbot_service(chatbot_instance, deployment)} :
       \E outcome \in ClassifierOutcomes(deployment.has_predict_proba) :
       \E choice \in RandomChoices : \E database_ok \in BOOLEAN :
          \E served \in {send_message(db, deployment, chatbot_service, req,
                                      outcome, choice, database_ok)} :
              /\ chatbot_instance' = (IF chatbot_service.raised THEN chatbot_instance
                                      ELSE Some(chatbot_service.value))
              /\ clf' = (IF served.ml_result.isNone THEN NoOutcome ELSE outcome)
              /\ events' = served.events
              /\ ml_result' = served.ml_result
              /\ resp' = served.response
              /\ db' = served.database
    /\ pc' = "responded"
    /\ UNCHANGED <<service, deployment, req>>
    /\ UNCHANGED <<decide_vars, flags_vars, thread_vars, a_served>>

\* GET /chat/crisis-resources is served
GetCrisisResources ==
    /\ pc = "received"
    /\ req.endpoint = "crisis_resources"
    /\ \E served \in {get_crisis_resources(
                          get_chatbot_service(chatbot_instance, deployment))} :
          /\ resp' = served.response
          /\ chatbot_instance' = served.chatbot_service
    /\ pc' = "responded"
    /\ UNCHANGED <<service, deployment, req, clf, events, ml_result, db>>
    /\ UNCHANGED <<decide_vars, flags_vars, thread_vars, a_served>>

\* the response has been sent; the request's values are discarded
Finish ==
    /\ pc = "responded"
    /\ pc' = "idle"
    /\ req' = NoRequest
    /\ clf' = NoOutcome
    /\ events' = <<>>
    /\ ml_result' = None
    /\ resp' = NoResponse
    /\ UNCHANGED <<service, deployment, db, chatbot_instance>>
    /\ UNCHANGED <<decide_vars, flags_vars, thread_vars, a_served>>

Next ==
    \/ Request
    \/ Analyze
    \/ PredictMentalHealth
    \/ SendMessage
    \/ GetCrisisResources
    \/ Finish

Spec == Init /\ [][Next]_vars

(***************************************************************************)
(* AnalyzeRequestsSpec: /analyze requests one after another, remembered    *)
(***************************************************************************)
\* the texts of the successive requests: two without any pattern ('know'
\* holds 'now' inside a word) and three with
RequestTexts ==
    {<<"I", " ", "f", "e", "e", "l", " ", "a", "n", "x", "i", "o", "u", "s">>,
     <<"k", "n", "o", "w">>,
     <<"t", "o", "n", "i", "g", "h", "t">>,
     <<"K", "I", "L", "L", " ", "m", "y", "s", "e", "l", "f">>,
     <<"I", " ", "a", "m", " ", "g", "o", "i", "n", "g", " ", "t", "o", " ", "k", "i", "l", "l", " ", "m", "y", "s", "e", "l", "f", " ", "t", "o", "n", "i", "g", "h", "t">>}

AnalyzeRequestsInit ==
    /\ d_label = <<>>
    /\ d_confidence = 0
    /\ d_flags = <<>>
    /\ d_action = "none"
    /\ d_calls = {}
    /\ service = "analysis"
    /\ deployment \in {d \in AnalysisDeployments : d.artifact /\ ~d.has_predict_proba}
    /\ db = EmptyDatabase
    /\ chatbot_instance = None
    /\ a_served = {}
    /\ f_text = <<>>
    /\ f_flags = None
    /\ threads = <<>>
    /\ heap = HeapStart
    /\ ApiIdle

\* a client posts the next /analyze request, with or without context
AnalyzeRequest ==
    /\ pc = "idle"
    /\ Started
    /\ \E text \in RequestTexts : \E context \in AnalyzeContexts :
          req' = [endpoint |-> "analyze", text |-> text, context |-> context]
    /\ pc' = "received"
    /\ UNCHANGED <<service, deployment, clf, events, ml_result, resp, db,
                   chatbot_instance, a_served>>
    /\ UNCHANGED <<decide_vars, flags_vars, thread_vars>>

\* the response has been sent; what the client got is remembered
FinishRemembered ==
    /\ pc = "responded"
    /\ a_served' = IF resp.status = 200
                   THEN a_served \cup {[text |-> req.text, flags |-> resp.flags]}
                   ELSE a_served
    /\ pc' = "idle"
    /\ req' = NoRequest
    /\ clf' = NoOutcome
    /\ events' = <<>>
    /\ ml_result' = None
    /\ resp' = NoResponse
    /\ UNCHANGED <<service, deployment, db, chatbot_instance>>
    /\ UNCHANGED <<decide_vars, flags_vars, thread_vars>>

AnalyzeRequestsNext == AnalyzeRequest \/ Analyze \/ FinishRemembered

AnalyzeRequestsSpec == AnalyzeRequestsInit /\ [][AnalyzeRequestsNext]_vars

(***************************************************************************)
(* SingletonSpec: concurrent first requests construct the services.        *)
(* FastAPI runs the plain functions get_ml_service and                     *)
(* get_chatbot_service in a thread pool, so the statements of __new__ and  *)
(* __init__ of different requests interleave; one step is one statement.   *)
(***************************************************************************)
SingletonInit ==
    /\ threads = [t \in Threads |-> ThreadStart]
    /\ heap = HeapStart
    /\ d_label = <<>>
    /\ d_confidence = 0
    /\ d_flags = <<>>
    /\ d_action = "none"
    /\ d_calls = {}
    /\ service = "chat"
    /\ deployment = CHOOSE b \in MLBundles :
                       b.artifact /\ b.has_predict_proba /\ b.classes = MODEL_CLASSES
    /\ db = EmptyDatabase
    /\ chatbot_instance = None
    /\ a_served = {}
    /\ f_text = <<>>
    /\ f_flags = None
    /\ ApiIdle

\* thread t moves on with thread record th and heap hp
Goto(t, th, hp) ==
    /\ threads' = [threads EXCEPT ![t] = th]
    /\ heap' = hp
    /\ UNCHANGED <<api_vars, decide_vars, flags_vars>>

\* where get_ml_service() returns to
AfterGetMLService(th) == IF th.ret = "handler" THEN "handler" ELSE "cb_init_service"

\* a request arrives and its dependency is resolved in a thread
ThreadRequest(t) ==
    /\ threads[t].pc = "idle"
    /\ \E kind \in {"ml_predict", "chat_message", "crisis_resources"} :
          Goto(t, [threads[t] EXCEPT
                      !.kind = kind,
                      !.ret = IF kind = "ml_predict" THEN "handler" ELSE "chat_init",
                      !.pc = IF kind = "ml_predict" THEN "cache_lookup"
                             ELSE "cb_new_test"],
               heap)

\* get_ml_service(), the lru_cache wrapper: a cached result is returned
\* without a call
LruCacheLookup(t) ==
    /\ threads[t].pc = "cache_lookup"
    /\ IF heap.ml_cache # 0
       THEN Goto(t, [threads[t] EXCEPT !.ml = heap.ml_cache,
                                       !.pc = AfterGetMLService(threads[t])], heap)
       ELSE Goto(t, [threads[t] EXCEPT !.pc = "ml_new_test"], heap)

\* MLService.__new__: if cls._instance is None
MLNewTest(t) ==
    /\ threads[t].pc = "ml_new_test"
    /\ Goto(t, [threads[t] EXCEPT !.pc = IF heap.ml_instance = 0
                                         THEN "ml_new_create" ELSE "ml_new_return"],
            heap)

\* cls._instance = super().__new__(cls)
MLNewCreate(t) ==
    /\ threads[t].pc = "ml_new_create"
    /\ Goto(t, [threads[t] EXCEPT !.pc = "ml_new_flag"],
            [heap EXCEPT !.ml_objects = Append(@, NewMLObject),
                         !.ml_instance = Len(heap.ml_objects) + 1])

\* cls._instance._initialized = False
MLNewFlag(t) ==
    /\ threads[t].pc = "ml_new_flag"
    /\ Goto(t, [threads[t] EXCEPT !.pc = "ml_new_return"],
            [heap EXCEPT !.ml_objects[heap.ml_instance].initialized = "false"])

\* return cls._instance
MLNewReturn(t) ==
    /\ threads[t].pc = "ml_new_return"
    /\ Goto(t, [threads[t] EXCEPT !.ml = heap.ml_instance, !.pc = "ml_init_test"], heap)

\* MLService.__init__: if self._initialized: return (AttributeError while
\* the attribute is not set yet)
MLInitTest(t) ==
    /\ threads[t].pc = "ml_init_test"
    /\ LET flag == heap.ml_objects[threads[t].ml].initialized
       IN  IF flag = "unset"
           THEN Goto(t, [threads[t] EXCEPT !.result = "AttributeError", !.pc = "done"],
                     heap)
           ELSE Goto(t, [threads[t] EXCEPT !.pc = IF flag = "true" THEN "cache_store"
                                                  ELSE "ml_init_load"], heap)

\* model_data = joblib.load(settings.MODEL_PATH)
MLInitLoad(t) ==
    /\ threads[t].pc = "ml_init_load"
    /\ Goto(t, [threads[t] EXCEPT !.pc = "ml_init_assign"],
            [heap EXCEPT !.loads = @ + 1])

\* self.model, self.vectorizer, self.classes = ...
MLInitAssign(t) ==
    /\ threads[t].pc = "ml_init_assign"
    /\ Goto(t, [threads[t] EXCEPT !.pc = "ml_init_done"],
            [heap EXCEPT !.ml_objects[threads[t].ml].writes = @ + 1])

\* self._initialized = True
MLInitDone(t) ==
    /\ threads[t].pc = "ml_init_done"
    /\ Goto(t, [threads[t] EXCEPT !.pc = "cache_store"],
            [heap EXCEPT !.ml_objects[threads[t].ml].initialized = "true"])

\* the lru_cache wrapper keeps the result unless another call stored one
\* meanwhile, and returns this call's result
LruCacheStore(t) ==
    /\ threads[t].pc = "cache_store"
    /\ Goto(t, [threads[t] EXCEPT !.pc = AfterGetMLService(threads[t])],
            [heap EXCEPT !.ml_cache = IF @ = 0 THEN threads[t].ml ELSE @])

\* ChatbotService.__new__: if cls._instance is None
CBNewTest(t) ==
    /\ threads[t].pc = "cb_new_test"
    /\ Goto(t, [threads[t] EXCEPT !.pc = IF heap.cb_instance = 0
                                         THEN "cb_new_create" ELSE "cb_new_return"],
            heap)

\* cls._instance = super().__new__(cls)
CBNewCreate(t) ==
    /\ threads[t].pc = "cb_new_create"
    /\ Goto(t, [threads[t] EXCEPT !.pc = "cb_new_flag"],
            [heap EXCEPT !.cb_objects = Append(@, NewChatbotObject),
                         !.cb_instance = Len(heap.cb_objects) + 1])

\* cls._instance._initialized = False
CBNewFlag(t) ==
    /\ threads[t].pc = "cb_new_flag"
    /\ Goto(t, [threads[t] EXCEPT !.pc = "cb_new_return"],
            [heap EXCEPT !.cb_objects[heap.cb_instance].initialized = "false"])

\* return cls._instance
CBNewReturn(t) ==
    /\ threads[t].pc = "cb_new_return"
    /\ Goto(t, [threads[t] EXCEPT !.cb = heap.cb_instance, !.pc = "cb_init_test"], heap)

\* ChatbotService.__init__: if self._initialized: return; otherwise
\* get_ml_service() is called
CBInitTest(t) ==
    /\ threads[t].pc = "cb_init_test"
    /\ LET flag == heap.cb_objects[threads[t].cb].initialized
       IN  IF flag = "unset"
           THEN Goto(t, [threads[t] EXCEPT !.result = "AttributeError", !.pc = "done"],
                     heap)
           ELSE Goto(t, [threads[t] EXCEPT !.pc = IF flag = "true" THEN "handler"
                                                  ELSE "cache_lookup"], heap)

\* self.ml_service = get_ml_service()
CBInitService(t) ==
    /\ threads[t].pc = "cb_init_service"
    /\ Goto(t, [threads[t] EXCEPT !.pc = "cb_init_flag"],
            [heap EXCEPT !.cb_objects[threads[t].cb].ml_service = TRUE])

\* self._initialized = True
CBInitFlag(t) ==
    /\ threads[t].pc = "cb_init_flag"
    /\ Goto(t, [threads[t] EXCEPT !.pc = "cb_init_templates"],
            [heap EXCEPT !.cb_objects[threads[t].cb].initialized = "true"])

\* self.response_templates = {...}
CBInitTemplates(t) ==
    /\ threads[t].pc = "cb_init_templates"
    /\ Goto(t, [threads[t] EXCEPT !.pc = "cb_init_resources"],
            [heap EXCEPT !.cb_objects[threads[t].cb].response_templates = TRUE])

\* self.crisis_resources = {...}
CBInitResources(t) ==
    /\ threads[t].pc = "cb_init_resources"
    /\ Goto(t, [threads[t] EXCEPT !.pc = "handler"],
            [heap EXCEPT !.cb_objects[threads[t].cb].crisis_resources = TRUE])

\* the attributes the handler of a request reads from the service it was
\* given; generate_response reads crisis_resources only for a crisis
HandlerReads(th, hp, crisis) ==
    CASE th.kind = "chat_message" ->
            /\ hp.cb_objects[th.cb].ml_service
            /\ hp.cb_objects[th.cb].response_templates
            /\ crisis => hp.cb_objects[th.cb].crisis_resources
      [] th.kind = "crisis_resources" -> hp.cb_objects[th.cb].crisis_resources
      [] OTHER -> TRUE

\* the route handler runs with the service its dependency returned
Handler(t) ==
    /\ threads[t].pc = "handler"
    /\ \E crisis \in BOOLEAN :
          Goto(t, [threads[t] EXCEPT
                      !.result = IF HandlerReads(threads[t], heap, crisis) THEN "ok"
                                 ELSE "AttributeError",
                      !.pc = "done"],
               heap)

SingletonNext ==
    \E t \in Threads :
        \/ ThreadRequest(t)
        \/ LruCacheLookup(t)
        \/ MLNewTest(t)
        \/ MLNewCreate(t)
        \/ MLNewFlag(t)
        \/ MLNewReturn(t)
        \/ MLInitTest(t)
        \/ MLInitLoad(t)
        \/ MLInitAssign(t)
        \/ MLInitDone(t)
        \/ LruCacheStore(t)
        \/ CBNewTest(t)
        \/ CBNewCreate(t)
        \/ CBNewFlag(t)
        \/ CBNewReturn(t)
        \/ CBInitTest(t)
        \/ CBInitService(t)
        \/ CBInitFlag(t)
        \/ CBInitTemplates(t)
        \/ CBInitResources(t)
        \/ Handler(t)

SingletonSpec == SingletonInit /\ [][SingletonNext]_vars

(***************************************************************************)
(* Claims about decide_action (checked under DecideSpec)                   *)
(***************************************************************************)
\* the flags of a list, as a set
FlagSet(flags) == {flags[i] : i \in DOMAIN flags}

\* the crisis_critical condition on a flag set, as section 4.3 states it
CriticalCondition(F) ==
    \/ ("intent" \in F /\ "time" \in F)
    \/ ("plan" \in F /\ ("intent" \in F \/ "time" \in F))

\* label is target written in some letter case
CaseVariantOf(label, target) ==
    /\ Len(label) = Len(target)
    /\ \A i \in DOMAIN target :
          \/ label[i] = target[i]
          \/ \E k \in DOMAIN LowerLetters :
                LowerLetters[k] = target[i] /\ UpperLetters[k] = label[i]

\* label is 'suicidal' or 'suicide' in some letter case
IsSuicidalLabel(label) == \E target \in SUICIDAL_LABELS : CaseVariantOf(label, target)

Decided == d_action # "none"

\* C1: for every label, confidence and flag list, decide_action returns
\* crisis_critical if and only if (intent and time) or (plan and (intent or
\* time)) are among the flags.
C1_CriticalIff ==
    Decided => ((d_action = "crisis_critical") <=> CriticalCondition(FlagSet(d_flags)))

C1_Witness ==
    /\ d_action = "crisis_critical"
    /\ FlagSet(d_flags) = {"plan", "time"}
    /\ d_label = <<"N", "o", "r", "m", "a", "l">>
    /\ d_confidence = 90

\* C2: a non-empty flag list that does not meet the critical condition gives
\* crisis_high for every label and confidence.
C2_AnyFlagHigh ==
    (Decided /\ d_flags # <<>> /\ ~CriticalCondition(FlagSet(d_flags)))
        => d_action = "crisis_high"

C2_Witness ==
    /\ d_action = "crisis_high"
    /\ d_flags = <<"intent">>
    /\ d_label = <<"n", "o", "r", "m", "a", "l">>
    /\ d_confidence = 80

\* C3: with no flags, a label equal to 'suicidal' or 'suicide' in any letter
\* case gives crisis_high for every confidence, also below 0.55.
C3_SuicidalLabelHigh ==
    (Decided /\ d_flags = <<>> /\ IsSuicidalLabel(d_label)) => d_action = "crisis_high"

C3_Witness ==
    /\ d_action = "crisis_high"
    /\ d_flags = <<>>
    /\ d_label = <<"S", "u", "I", "c", "I", "d", "E">>
    /\ d_confidence = 10

\* C4: with no flags and a label that is not suicidal, the action is
\* uncertain_support exactly when confidence < 0.55 and normal exactly when
\* confidence >= 0.55.
C4_ThresholdStrict ==
    (Decided /\ d_flags = <<>> /\ ~IsSuicidalLabel(d_label)) =>
        /\ (d_action = "uncertain_support") <=> (d_confidence < 55)
        /\ (d_action = "normal") <=> (d_confidence >= 55)

C4_Witness ==
    /\ d_action = "normal"
    /\ d_flags = <<>>
    /\ d_confidence = 55
    /\ d_label = <<"A", "n", "x", "i", "e", "t", "y">>

\* C5: for a non-empty flag list the action is the same for all labels and
\* all confidences, and it is never normal or uncertain_support.  (The action
\* of every call is compared with the calls that differ from it in the label
\* alone and in the confidence alone; every (label, confidence) pair is a
\* reachable call, so the action depends on neither.)
C5_FlagsDominate ==
    (Decided /\ d_flags # <<>>) =>
        /\ d_action \in {"crisis_high", "crisis_critical"}
        /\ \A l \in DecisionLabels : decide_action(l, d_confidence, d_flags) = d_action
        /\ \A c \in Confidences : decide_action(d_label, c, d_flags) = d_action

C5_Witness ==
    /\ d_action = "crisis_high"
    /\ d_flags = <<"means">>
    /\ d_confidence = 20
    /\ d_label = <<"N", "o", "r", "m", "a", "l">>

(***************************************************************************)
(* Claims about the requests served (checked under Spec)                   *)
(***************************************************************************)
Responded == pc = "responded"

\* the handler's prediction failed for this request
PredictionFailed == \E i \in DOMAIN events : events[i].op = "prediction_failed"

\* the vectorizer or the classifier raised in a call the handler made
InferenceRaised == PredictionFailed /\ clf.raises # "nothing"

EXAMPLE_CRITICAL_TEXT ==
    <<"I", " ", "a", "m", " ", "g", "o", "i", "n", "g", " ", "t", "o", " ", "k", "i", "l", "l", " ", "m", "y", "s", "e", "l", "f", " ", "t", "o", "n", "i", "g", "h", "t">>

\* C6: through /analyze, a text whose flags include intent and time gets the
\* recommended_action crisis_critical whatever the classifier outputs: every
\* response that carries the flags intent and time carries crisis_critical,
\* and every response to 'I am going to kill myself tonight' carries both
\* flags.
C6_AnalyzeCritical ==
    (Responded /\ req.endpoint = "analyze" /\ resp.status = 200) =>
        /\ (In("intent", resp.flags) /\ In("time", resp.flags))
              => resp.recommended_action = "crisis_critical"
        /\ req.text = EXAMPLE_CRITICAL_TEXT
              => (In("intent", resp.flags) /\ In("time", resp.flags))

C6_Witness ==
    /\ Responded
    /\ req.endpoint = "analyze"
    /\ req.text = EXAMPLE_CRITICAL_TEXT
    /\ resp.status = 200
    /\ resp.risk_label = NORMAL
    /\ resp.confidence = 100
    /\ resp.recommended_action = "crisis_critical"

\* C7: in the /analyze path and in the chat path, whenever prediction fails
\* the Pattern Matcher has been evaluated on the request's text before the
\* failure outcome is produced.
C7_FlagsBeforeFailure ==
    (Responded /\ req.endpoint \in {"analyze", "chat_message"}) =>
        \A i \in DOMAIN events :
            events[i].op = "prediction_failed" =>
                \E j \in 1..(i - 1) :
                    events[j] = Event("get_flags", Strip(req.text))

\* C8: on prediction failure in the chat path the end user receives the
\* generic fallback reply as the response, not an error.
C8_ChatFallbackReply ==
    (Responded /\ req.endpoint = "chat_message" /\ PredictionFailed) =>
        /\ resp.status = 200
        /\ resp.response = FixedReply(FALLBACK_REPHRASE)

\* C9: when the vectorizer or the classifier raises during inference, the
\* caller of /analyze or /ml/predict receives a server-error status and a
\* generic failure indicator; the text of the exception is not returned.
C9_NoExceptionText ==
    (Responded /\ req.endpoint \in {"analyze", "ml_predict"} /\ InferenceRaised) =>
        /\ resp.status = 500
        /\ resp.detail \notin {Str(e) : e \in InferenceExceptions}

\* C10: MLService.predict returns a result and never raises; when the
\* vectorizer or the model raises, the result has status 'error', prediction
\* None and an empty probabilities mapping.
C10_PredictNeverRaises ==
    (~ml_result.isNone) =>
        /\ ~ml_result.val.raised
        /\ (clf.raises \in {"transform", "predict"}
            \/ (clf.raises = "predict_proba" /\ deployment.has_predict_proba))
              => /\ ml_result.val.value.status = "error"
                 /\ ml_result.val.value.prediction = None
                 /\ ml_result.val.value.probabilities = EmptyDict

C10_Witness ==
    /\ Responded
    /\ req.endpoint = "chat_message"
    /\ clf.raises = "predict_proba"
    /\ deployment.has_predict_proba
    /\ ~ml_result.isNone
    /\ ml_result.val = Return([prediction |-> None, probabilities |-> EmptyDict,
                               status |-> "error", message |-> Str(clf.exc)])

\* a chat message answered with a generated reply
ChatReplied ==
    /\ Responded
    /\ req.endpoint = "chat_message"
    /\ resp.status = 200

\* C11: in every successful chat result crisis_detected is true exactly when
\* the predicted label is 'Suicidal' or the probability of 'Suicidal' is
\* strictly above 0.3; a missing 'Suicidal' key counts as 0.
C11_CrisisDetectedIff ==
    ChatReplied =>
        (resp.crisis_detected <=>
            \/ resp.prediction = Some(SUICIDAL)
            \/ /\ SUICIDAL \in DOMAIN resp.probabilities
               /\ resp.probabilities[SUICIDAL] > 30)

\* another label with the probability of 'Suicidal' exactly 0.3
C11_Witness ==
    /\ ChatReplied
    /\ resp.prediction = Some(ANXIETY)
    /\ SUICIDAL \in DOMAIN resp.probabilities
    /\ resp.probabilities[SUICIDAL] = 30
    /\ ~resp.crisis_detected

\* C12: in every successful chat result requires_professional_help is true
\* exactly when crisis_detected is true or the label is 'Suicidal' or
\* 'Depression'; so crisis_detected implies requires_professional_help.
C12_ProfessionalHelpIff ==
    ChatReplied =>
        /\ resp.requires_professional_help <=>
              \/ resp.crisis_detected
              \/ resp.prediction \in {Some(SUICIDAL), Some(DEPRESSION)}
        /\ resp.crisis_detected => resp.requires_professional_help

\* a crisis detected on the probability alone, under the label 'Anxiety'
C12_Witness ==
    /\ ChatReplied
    /\ resp.prediction = Some(ANXIETY)
    /\ resp.crisis_detected
    /\ resp.requires_professional_help

\* C13: the crisis resources are attached to a chat result exactly when
\* crisis_detected is true, and whatever requests were served before, the
\* payload attached or handed out by get_crisis_resources, and the one the
\* service holds, is the hotline list set at construction.
C13_CrisisResourcesStatic ==
    /\ ChatReplied =>
          resp.crisis_resources =
              (IF resp.crisis_detected THEN Some(CRISIS_RESOURCES) ELSE None)
    /\ (Responded /\ req.endpoint = "crisis_resources" /\ resp.status = 200) =>
          resp.resources = CRISIS_RESOURCES
    /\ ~chatbot_instance.isNone =>
          chatbot_instance.val.crisis_resources = CRISIS_RESOURCES

\* the resources attached to a second conversation's reply, after an earlier
\* request constructed the service
C13_Witness ==
    /\ ChatReplied
    /\ Len(db.conversations) = 2
    /\ resp.crisis_detected
    /\ resp.crisis_resources = Some(CRISIS_RESOURCES)

(***************************************************************************)
(* Claims about repeated calls (checked under DecideCallsSpec)             *)
(***************************************************************************)
\* the calls that have returned: the earlier ones and the current one
ReturnedCalls ==
    d_calls \cup (IF d_action = "none" THEN {}
                  ELSE {CallRecord(d_label, d_confidence, d_flags, d_action)})

FlagFreeTexts ==
    {<<"I", " ", "f", "e", "e", "l", " ", "a", "n", "x", "i", "o", "u", "s">>,
     <<"k", "n", "o", "w">>}

\* C15: safety flags never carry over between /analyze requests: the flags
\* returned depend only on the request's own text, so a text answered before
\* gets the same flags again, and a flag-free text gets an empty list
\* whatever was answered before it.
C15_FlagsNoCarryOver ==
    (Responded /\ req.endpoint = "analyze" /\ resp.status = 200) =>
        /\ \A s \in a_served : s.text = req.text => s.flags = resp.flags
        /\ req.text \in FlagFreeTexts => resp.flags = <<>>

\* a flag-free text answered after a flagged one
C15_Witness ==
    /\ Responded
    /\ req.endpoint = "analyze"
    /\ resp.status = 200
    /\ req.text \in FlagFreeTexts
    /\ resp.flags = <<>>
    /\ \E s \in a_served : s.flags = <<"intent", "time">>
    /\ \E s \in a_served : s.text = req.text

(***************************************************************************)
(* Claims about get_flags (checked under FlagsSpec)                        *)
(***************************************************************************)
\* the phrase stands in the text as whole words, letter case ignored
PhraseOccurs(phrase, text) ==
    LET low == Lower(text)
        n == Len(phrase)
    IN  \E p \in 1..(Len(low) - n + 1) :
            /\ SubSeq(low, p, p + n - 1) = Lower(phrase)
            /\ (p = 1 \/ ~IsWordChar(low[p - 1]))
            /\ (p + n > Len(low) \/ ~IsWordChar(low[p + n]))

\* some phrase of some pattern of the category occurs in the text
CategoryOccurs(patterns, text) ==
    \E i \in DOMAIN patterns : \E phrase \in patterns[i] : PhraseOccurs(phrase, text)

\* C16: get_flags includes a category exactly when at least one of that
\* category's patterns matches somewhere in the text, ignoring letter case;
\* each of the four categories is decided by its own patterns alone.
C16_CategoryIffMatch ==
    ~f_flags.isNone =>
        /\ In("intent", f_flags.val) <=> CategoryOccurs(INTENT_PATTERNS, f_text)
        /\ In("time", f_flags.val) <=> CategoryOccurs(TIME_PATTERNS, f_text)
        /\ In("plan", f_flags.val) <=> CategoryOccurs(PLAN_PATTERNS, f_text)
        /\ In("means", f_flags.val) <=> CategoryOccurs(MEANS_PATTERNS, f_text)

\* an upper-case phrase of one category next to a phrase of another
C16_Witness ==
    /\ f_text = <<"K", "I", "L", "L", " ", "m", "y", "s", "e", "l", "f", " ",
                  "t", "o", "n", "i", "g", "h", "t">>
    /\ f_flags = Some(<<"intent", "time">>)

\* the first-person future phrases of the first intent pattern
FUTURE_PHRASES ==
    {<<"i", " ", "w", "i", "l", "l">>,
     <<"i", " ", "a", "m", " ", "g", "o", "i", "n", "g", " ", "t", "o">>,
     <<"i", " ", "g", "o", "n", "n", "a">>}

\* the text holds a self-harm or desire-to-die phrase
SelfHarmOccurs(text) ==
    \E i \in 2..Len(INTENT_PATTERNS) : \E phrase \in INTENT_PATTERNS[i] :
        PhraseOccurs(phrase, text)

\* C17: a text with 'I will' / 'I am going to' / 'I gonna' and no self-harm
\* or desire-to-die phrase does not get the intent flag.
C17_FutureAloneNoIntent ==
    (/\ ~f_flags.isNone
     /\ \E phrase \in FUTURE_PHRASES : PhraseOccurs(phrase, f_text)
     /\ ~SelfHarmOccurs(f_text))
        => ~In("intent", f_flags.val)

(***************************************************************************)
(* Claims about validation, startup and hard predictions (under Spec)      *)
(***************************************************************************)
\* C18: every text that reaches the Pattern Matcher through /analyze is
\* non-empty after trimming and at most 4000 characters: empty,
\* whitespace-only and over-length requests are answered 422 before the
\* core runs.
C18_CoreTextNonEmpty ==
    (Responded /\ req.endpoint = "analyze") =>
        /\ \A i \in DOMAIN events :
              events[i].op = "get_flags" =>
                  (Len(events[i].arg) >= 1 /\ Len(events[i].arg) <= 4000)
        /\ (Len(Strip(req.text)) = 0 \/ Len(req.text) > 4000) =>
              (resp.status = 422 /\ events = <<>>)

\* C19: when the model artifact is absent at startup, loading fails with a
\* model-not-found error; in production the process does not come up (it
\* never takes a request), and in no mode is an /analyze request answered
\* successfully (no recommended_action without a loaded model).
C19_NoModelNoSuccess ==
    (service = "analysis" /\ ~deployment.artifact) =>
        /\ load_model_and_labels(deployment).raised
        /\ load_model_and_labels(deployment).exc.type = "FileNotFoundError"
        /\ deployment.production => (pc = "idle" /\ req = NoRequest)
        /\ Responded => (resp.status # 200 /\ "recommended_action" \notin DOMAIN resp)

\* outside production the process serves, and the request fails
C19_Witness ==
    /\ service = "analysis"
    /\ ~deployment.artifact
    /\ ~deployment.production
    /\ Responded
    /\ req.text = EXAMPLE_CRITICAL_TEXT
    /\ resp = HTTPError(500, "Model prediction failed")

\* C20: a classifier that exposes only a hard prediction is treated as
\* confidence 1.0 with an empty probability mapping in every path, so its
\* prediction is never handled as low-confidence: no uncertain_support
\* action from /analyze and no low-confidence follow-up prompt in the chat
\* reply.
C20_HardPredictionConfident ==
    (Responded /\ ~deployment.has_predict_proba /\ resp.status = 200) =>
        /\ req.endpoint = "analyze" =>
              (resp.confidence = 100 /\ resp.recommended_action # "uncertain_support")
        /\ req.endpoint \in {"ml_predict", "chat_message"} =>
              resp.probabilities = EmptyDict
        /\ req.endpoint = "chat_message" => ~resp.response.follow_up

(***************************************************************************)
(* Claims about labels and probabilities (checked under Spec)              *)
(***************************************************************************)
\* /analyze ran predict_proba on a valid request and no inference call raised
AnalyzePredicted ==
    /\ Responded
    /\ req.endpoint = "analyze"
    /\ resp.status # 422
    /\ deployment.artifact
    /\ deployment.has_predict_proba
    /\ clf.raises = "nothing"

\* C21: label resolution in /analyze follows a fixed precedence for every
\* arg-max index: the supplied label list if present, otherwise the
\* classifier's class ordering, otherwise the index as a string; and it
\* never fails, whatever the length of the label list.
C21_LabelResolution ==
    AnalyzePredicted =>
        /\ resp.status = 200
        /\ resp.risk_label =
              (IF ~deployment.labels.isNone
               THEN deployment.labels.val[Argmax(clf.proba)]
               ELSE IF deployment.has_classes
               THEN MODEL_CLASSES[Argmax(clf.proba)]
               ELSE IndexStr(Argmax(clf.proba)))

\* C22: for a classifier with per-class probabilities, the key set of every
\* returned probabilities mapping equals the label vocabulary known at load
\* time (no label dropped, none invented), for every input and also when
\* the label list and the probability vector differ in length.
C22_ProbabilityKeys ==
    (/\ service = "chat"
     /\ deployment.has_predict_proba
     /\ ~ml_result.isNone
     /\ ~ml_result.val.raised
     /\ ml_result.val.value.status = "success")
        => DOMAIN ml_result.val.value.probabilities =
               {deployment.classes[i] : i \in DOMAIN deployment.classes}

ContextVolume(context) == ~context.isNone /\ Len(context.val) > 2

\* the random draws behind a reply (the prefix draw shows only in a
\* prefixed reply)
DrawsOf(reply) ==
    [template |-> reply.template.variant,
     prefix |-> IF reply.prefix = 0 THEN 1 ELSE reply.prefix]

\* C24: prior-turn context is only a volume signal.  The same chat message
\* with the same classifier output and any other context gets the same
\* prediction, probabilities, crisis_detected, requires_professional_help
\* and crisis_resources, and the same reply when both contexts are on the
\* same side of 'more than 2 entries'; the /analyze response (compared on
\* the texts of RequestTexts) is the same for every context.
C24_ContextVolumeOnly ==
    /\ ChatReplied =>
          \A other \in ChatContexts :
              LET again == generate_response(chatbot_instance.val, deployment,
                                             Strip(req.text), other, clf,
                                             DrawsOf(resp.response)).result
              IN  /\ again.status = "success"
                  /\ again.prediction = resp.prediction
                  /\ again.probabilities = resp.probabilities
                  /\ again.crisis_detected = resp.crisis_detected
                  /\ again.requires_professional_help = resp.requires_professional_help
                  /\ again.crisis_resources = resp.crisis_resources
                  /\ ContextVolume(other) = ContextVolume(req.context)
                        => again.response = resp.response
    /\ (Responded /\ req.endpoint = "analyze" /\ req.text \in RequestTexts) =>
          \A other \in AnalyzeContexts :
              analyze_decide(deployment,
                             analyze_flags([req EXCEPT !.context = other]),
                             clf).response = resp

\* a reply to a message sent with three turns full of patterns
C24_Witness ==
    /\ ChatReplied
    /\ req.context = Some(<<CRISIS_TURN, CRISIS_TURN, CRISIS_TURN>>)
    /\ resp.prediction = Some(NORMAL)
    /\ ~resp.crisis_detected
    /\ resp.response.prefix = 0

(***************************************************************************)
(* Claims about the singletons (checked under SingletonSpec)               *)
(***************************************************************************)
\* the callers whose get_ml_service() or MLService() call has returned
MLCallers == {t \in Threads : threads[t].ml # 0 /\ threads[t].pc \in {"handler", "cb_init_service", "cb_init_flag", "cb_init_templates", "cb_init_resources", "done"}}

\* C25: for any interleaving of concurrent first calls the model bundle is
\* loaded exactly once: joblib.load runs at most once, every caller whose
\* call has returned holds the same instance, and model, vectorizer and
\* classes are not assigned a second time.
C25_LoadedOnce ==
    /\ heap.loads <= 1
    /\ \A t, u \in MLCallers : threads[t].ml = threads[u].ml
    /\ \A i \in DOMAIN heap.ml_objects : heap.ml_objects[i].writes <= 1

\* the callers that received a ChatbotService from get_chatbot_service()
ChatbotReceivers == {t \in Threads : threads[t].cb # 0 /\ threads[t].pc = "handler"}

\* C27: no request observes a partially initialised ChatbotService: whenever
\* a caller receives an instance whose _initialized is true, its
\* response_templates and crisis_resources are set.
C27_NoPartialInstance ==
    \A t \in ChatbotReceivers :
        LET self == heap.cb_objects[threads[t].cb]
        IN  self.initialized = "true" =>
                self.response_templates /\ self.crisis_resources

(***************************************************************************)
(* Claims about the legacy module (checked under LegacySpec)               *)
(***************************************************************************)
\* C26: the legacy module and the application module are behaviourally
\* equivalent: the legacy get_flags returns for every text the list the
\* application's get_flags returns, and the legacy decide_action returns for
\* every label, confidence and flag list the action the application's
\* decide_action returns.
C26_LegacyEquivalent ==
    /\ f_flags # None => f_flags.val = get_flags(f_text)
    /\ d_action # "none" => d_action = decide_action(d_label, d_confidence, d_flags)

\* both legacy functions have answered, with flags and an escalation
C26_Witness ==
    \/ /\ f_flags # None
       /\ In("intent", f_flags.val)
       /\ In("time", f_flags.val)
       /\ ~In("plan", f_flags.val)
    \/ /\ d_action = "crisis_high"
       /\ d_flags = <<>>
       /\ Lower(d_label) # d_label

(***************************************************************************)
(* Monotonicity of the decision engine (checked under DecideSpec)          *)
(***************************************************************************)
\* the severity order normal < uncertain_support < crisis_high < crisis_critical
Severity(action) ==
    CASE action = "normal" -> 0
      [] action = "uncertain_support" -> 1
      [] action = "crisis_high" -> 2
      [] action = "crisis_critical" -> 3

\* C28: decide_action is monotone in the flags: for every fixed label and
\* confidence, adding a flag to the flag set never lowers the returned
\* action in the order normal < uncertain_support < crisis_high <
\* crisis_critical, in the application module and in the legacy module.
C28_MonotoneInFlags ==
    Decided =>
        \A f \in FLAG_NAMES \ FlagSet(d_flags) :
            /\ Severity(d_action)
                  <= Severity(decide_action(d_label, d_confidence, Append(d_flags, f)))
            /\ Severity(legacy_decide_action(d_label, d_confidence, d_flags))
                  <= Severity(legacy_decide_action(d_label, d_confidence,
                                                   Append(d_flags, f)))

\* a decided call with two flags and the critical action, where a third flag
\* can still be added
C28_Witness ==
    /\ d_action = "crisis_critical"
    /\ d_flags = <<"time", "intent">>
    /\ d_confidence = 54
    /\ d_label = <<"N", "o", "r", "m", "a", "l">>
    /\ decide_action(d_label, d_confidence, <<"time", "intent", "means">>)
          = "crisis_critical"

(***************************************************************************)
(* Claims about the persisted conversations (checked under Spec)           *)
(***************************************************************************)
\* every committed conversation holds one user message and one assistant
\* message, counts them, and carries the assistant message's crisis flag
CommittedConversationsWhole ==
    \A i \in DOMAIN db.conversations :
        LET conversation == db.conversations[i]
        IN  /\ Len(conversation.messages) = 2
            /\ conversation.messages[1].role = "user"
            /\ conversation.messages[2].role = "assistant"
            /\ conversation.message_count = Len(conversation.messages)
            /\ conversation.crisis_detected = conversation.messages[2].crisis_detected

\* a send_message request that is answered with an error commits nothing,
\* and one that is answered with a reply commits one conversation
SendMessageCommits ==
    (pc = "received" /\ req.endpoint = "chat_message" /\ pc' = "responded") =>
        IF resp'.status = 200
        THEN /\ Len(db'.conversations) = Len(db.conversations) + 1
             /\ SubSeq(db'.conversations, 1, Len(db.conversations)) = db.conversations
        ELSE db' = db

\* C29: chat persistence is all-or-nothing per request: after any sequence
\* of send_message requests every committed conversation has exactly one
\* user message and one assistant message, message_count 2 and the crisis
\* flag of its assistant message; a request whose generation reports an
\* error, or that raises, leaves no committed conversation or message rows.
C29_AllOrNothing == []CommittedConversationsWhole /\ [][SendMessageCommits]_vars

\* a request whose generation reported an error was answered while an
\* earlier conversation, flagged as a crisis, stays committed alone
C29_Witness ==
    /\ Responded
    /\ req.endpoint = "chat_message"
    /\ resp.status = 500
    /\ PredictionFailed
    /\ Len(db.conversations) = 1
    /\ db.conversations[1].crisis_detected

(***************************************************************************)
(* Decision engine and composer on the same label (checked under           *)
(* DecideSpec)                                                             *)
(***************************************************************************)
\* the mapping MLService.predict builds when the classifier's predicted
\* class is the label and carries the confidence
OwnProbability(label, confidence) == ZipDict(<<label>>, <<confidence>>)

====
